---- MODULE Spec2Model ----
(***************************************************************************)
(* Model of prtg.api.ApiClient: the request layer (_requests_get,          *)
(* _requests_post on a requests.Session whose adapters carry a urllib3     *)
(* Retry), and the create-and-confirm protocol of add_device / add_group   *)
(* (snapshot, creation POST, tenacity poll loop).                          *)
(***************************************************************************)
EXTENDS Integers, Sequences, FiniteSets, TLC

VARIABLES
    credsValid,      \* server side: does the server accept the client's credentials
    constructed,     \* an ApiClient object exists
    timeout,         \* self.timeout
    retries,         \* Retry(total=retries)
    backoff_factor,  \* Retry(backoff_factor=...)
    validated,       \* outcome of _validate_cred, "no" while it was never called
    server,          \* the server's list answering the name query, in server order
    accepted,        \* creation calls accepted by the server, not yet visible
    mine,            \* objids of the objects created by this client's calls
    pc,              \* position of the add_device / add_group call
    before,          \* duplicate_devices / duplicate_groups
    pollLog,         \* the lists returned by the polls of the current call
    elapsed,         \* time since the Retrying loop started
    result,          \* the record returned by the call
    err,             \* the exception the call raised
    rpc,             \* position of the single request of the request-layer runs
    last,            \* the last request made through the request layer
    fpc,             \* position of the single call of the pure-function runs
    auth,            \* the session's auth object
    url_in,          \* query parameters of the request before the auth hook
    url_params,      \* query parameters of the request after the auth hook
    id_url,          \* the url handed to _parse_obj_id, a sequence of characters
    id_out,          \* what _parse_obj_id gave: the int, or the error it raised
    tags,            \* the tags handed to set_tags, each a sequence of characters
    combined_tags,   \* the value set_tags hands to _set_obj_property_base
    other            \* a second caller of add_device / add_group on the same server

clientVars == <<constructed, timeout, retries, backoff_factor, validated>>
serverVars == <<server, accepted, mine>>
callVars   == <<pc, before, pollLog, elapsed, result, err>>
reqVars    == <<rpc, last>>
authVars   == <<auth, url_in, url_params>>
parseVars  == <<id_url, id_out>>
tagVars    == <<tags, combined_tags>>
extVars    == <<fpc, authVars, parseVars, tagVars, other>>
vars == <<credsValid, extVars, clientVars, serverVars, callVars, reqVars>>

----------------------------------------------------------------------------
(* Bounds of the model *)

MaxRetries == 3
MaxObjects == 3
MaxPolls == 3
MaxTime == 4
MaxPollTime == 1
MaxTimeout == 2
MaxFlowRetries == 0
MaxTouches == 1

(* Python's None where an int is expected *)
None == -1

Truthy(x) == x # None /\ x # 0

Min(a, b) == IF a <= b THEN a ELSE b

RECURSIVE Pow2(_)
Pow2(n) == IF n <= 0 THEN 1 ELSE 2 * Pow2(n - 1)

Range(s) == {s[i] : i \in DOMAIN s}

----------------------------------------------------------------------------
(* Responses of the server *)

(* An XML body: well-formedness, the root element and its direct children *)
Elem(t, x) == [tag |-> t, text |-> x]
NoElement == Elem("None", "None")

XmlPrtgError == [wf |-> TRUE, root |-> Elem("prtg", ""),
                 children |-> <<Elem("version", "1"), Elem("error", "X"), Elem("error", "Y")>>]
XmlErrorRoot == [wf |-> TRUE, root |-> Elem("error", "X"), children |-> <<>>]
XmlNoError   == [wf |-> TRUE, root |-> Elem("prtg", ""), children |-> <<Elem("version", "1")>>]
XmlMalformed == [wf |-> FALSE, root |-> NoElement, children |-> <<>>]

Bodies == {XmlPrtgError, XmlErrorRoot, XmlNoError, XmlMalformed}

(* status and Retry-After header (None: no header) of one response *)
Hd(s, ra) == [status |-> s, ra |-> ra]

Heads ==
    {Hd(s, None) : s \in {200, 400, 404, 429, 500, 502, 503, 504}}
    \cup {Hd(429, 5)}

FlowHeads == {Hd(200, None), Hd(400, None), Hd(404, None), Hd(503, None)}

(* a server that rejects the credentials answers 401 to every request *)
ServerHeads(hs) == IF credsValid THEN hs ELSE {Hd(401, None)}

----------------------------------------------------------------------------
(* Transport: HTTPAdapter(max_retries=Retry(total, backoff_factor,         *)
(* status_forcelist))                                                      *)

status_forcelist == {500, 502, 503, 504}
DEFAULT_ALLOWED_METHODS == {"HEAD", "GET", "PUT", "DELETE", "OPTIONS", "TRACE"}
RETRY_AFTER_STATUS_CODES == {413, 429, 503}
DEFAULT_BACKOFF_MAX == 120

(* is_retry without the allowed-methods test *)
is_retry_any_method(method, status_code, has_retry_after, total) ==
    IF status_code \in status_forcelist THEN TRUE
    ELSE total # 0 /\ has_retry_after /\ status_code \in RETRY_AFTER_STATUS_CODES

(* Retry.is_retry *)
is_retry(method, status_code, has_retry_after, total) ==
    IF method \notin DEFAULT_ALLOWED_METHODS THEN FALSE
    ELSE IF status_code \in status_forcelist THEN TRUE
    ELSE total # 0 /\ has_retry_after /\ status_code \in RETRY_AFTER_STATUS_CODES

(* get_backoff_time without the exponential growth *)
get_backoff_time_flat(bf, n) ==
    IF n <= 1 THEN 0 ELSE Min(DEFAULT_BACKOFF_MAX, bf)

(* Retry.get_backoff_time, n errors in the history *)
get_backoff_time(bf, n) ==
    IF n <= 1 THEN 0 ELSE Min(DEFAULT_BACKOFF_MAX, bf * Pow2(n - 1))

(* Retry.sleep: a positive Retry-After wins over the backoff *)
sleep(h, bf, n) ==
    IF h.ra # None /\ h.ra > 0 THEN h.ra ELSE get_backoff_time(bf, n)

(* HTTPAdapter.send: the attempts of one request; the server picks the    *)
(* answer to each attempt among heads, seen holds the answers so far; the  *)
(* value is the set of ways the request can go                             *)
RECURSIVE send(_, _, _, _, _, _)
send(method, heads, seen, total, bf, delays) ==
    UNION {
        IF is_retry(method, h.status, h.ra # None, total)
        THEN IF total - 1 < 0
             THEN {[exhausted |-> TRUE, seen |-> Append(seen, h), delays |-> delays]}
             ELSE send(method, heads, Append(seen, h), total - 1, bf,
                       Append(delays, sleep(h, bf, Len(seen) + 1)))
        ELSE {[exhausted |-> FALSE, seen |-> Append(seen, h), delays |-> delays]}
        : h \in heads}

----------------------------------------------------------------------------
(* RequestExecutor *)

Exc(k, m, s) == [kind |-> k, msg |-> m, status |-> s]
NoExc == Exc("none", "", None)

(* Response.raise_for_status *)
raise_for_status(status) ==
    IF status >= 400 /\ status < 500 THEN Exc("HTTPError", "Client Error", status)
    ELSE IF status >= 500 /\ status < 600 THEN Exc("HTTPError", "Server Error", status)
    ELSE NoExc

(* Element.find returning the last direct child with the tag *)
ET_find_last(body, t) ==
    LET idx == {i \in DOMAIN body.children : body.children[i].tag = t}
    IN  IF idx = {} THEN NoElement
        ELSE body.children[CHOOSE i \in idx : \A j \in idx : i >= j]

(* Element.find: the first direct child with the tag *)
ET_find(body, t) ==
    LET idx == {i \in DOMAIN body.children : body.children[i].tag = t}
    IN  IF idx = {} THEN NoElement
        ELSE body.children[CHOOSE i \in idx : \A j \in idx : i <= j]

(* the exception _requests_get raises on the final response, NoExc if none *)
get_error(status, body) ==
    IF raise_for_status(status) = NoExc THEN NoExc
    ELSE IF status = 400
         THEN IF ~body.wf THEN Exc("ParseError", "", None)
              ELSE IF ET_find(body, "error") = NoElement
                   THEN Exc("AttributeError", "", None)
                   ELSE Exc("HTTPError", ET_find(body, "error").text, None)
         ELSE raise_for_status(status)

(* the exception _requests_post raises on the final response *)
post_error(status, body) == raise_for_status(status)

(* the body is read only when the final response has status 400 *)
BodiesFor(status) == IF status = 400 THEN Bodies ELSE {XmlNoError}

(* what the caller of a request gets, t is the way the transport went *)
Outcome(method, t, body) ==
    [method   |-> method,
     attempts |-> Len(t.seen),
     delays   |-> t.delays,
     seen     |-> t.seen,
     body     |-> body,
     exc      |-> IF t.exhausted THEN Exc("RetryError", "too many error responses", None)
                  ELSE IF method = "GET" THEN get_error(t.seen[Len(t.seen)].status, body)
                  ELSE post_error(t.seen[Len(t.seen)].status, body)]

(* the ways one request through the session can go *)
Calls(method, heads) ==
    UNION {{Outcome(method, t, b) : b \in BodiesFor(t.seen[Len(t.seen)].status)} :
           t \in send(method, ServerHeads(heads), <<>>, retries, backoff_factor, <<>>)}

_requests_get(heads) == Calls("GET", heads)
_requests_post(heads) == Calls("POST", heads)

NoCall == [method |-> "", attempts |-> 0, delays |-> <<>>, seen |-> <<>>,
           body |-> XmlNoError, exc |-> NoExc]

----------------------------------------------------------------------------
(* Authenticator: prtg.auth *)

MaxParams == 2

(* an attribute the class does not set *)
Unset == "<unset>"
(* Python's None as a parameter value *)
PyNone == "<None>"

Param(k, v) == <<k, v>>

BasicAuth(username, password) ==
    [cls |-> "BasicAuth", username |-> username, password |-> password,
     passhash |-> Unset, api_token |-> Unset]
BasicPasshash(username, passhash) ==
    [cls |-> "BasicPasshash", username |-> username, password |-> Unset,
     passhash |-> passhash, api_token |-> Unset]
BasicToken(api_token) ==
    [cls |-> "BasicToken", username |-> Unset, password |-> Unset,
     passhash |-> Unset, api_token |-> api_token]
NoAuth == [cls |-> "None", username |-> Unset, password |-> Unset,
           passhash |-> Unset, api_token |-> Unset]

(* PreparedRequest._encode_params: the pairs of the dict whose value is not None *)
RECURSIVE _encode_params(_)
_encode_params(params) ==
    IF params = <<>> THEN <<>>
    ELSE IF params[1][2] = PyNone THEN _encode_params(Tail(params))
         ELSE <<params[1]>> \o _encode_params(Tail(params))

(* PreparedRequest.prepare_url(r.url, params): the encoded params are      *)
(* appended to the query the url already has                               *)
prepare_url(query, params) == query \o _encode_params(params)

(* BasicPasshash.__call__ falling back to the password parameter *)
auth_params_password(a) ==
    IF a.cls = "BasicAuth"
    THEN <<Param("username", a.username), Param("password", a.password)>>
    ELSE IF a.cls = "BasicPasshash"
    THEN <<Param("username", a.username), Param("password", a.passhash)>>
    ELSE <<Param("apitoken", a.api_token)>>

(* the dict each __call__ hands to prepare_url *)
auth_params(a) ==
    IF a.cls = "BasicAuth"
    THEN <<Param("username", a.username), Param("password", a.password)>>
    ELSE IF a.cls = "BasicPasshash"
    THEN <<Param("username", a.username), Param("passhash", a.passhash)>>
    ELSE <<Param("apitoken", a.api_token)>>

(* BasicAuth / BasicPasshash / BasicToken .__call__(r) *)
auth_call(a, query) == prepare_url(query, auth_params(a))

Usernames == {"", "u"}
Secrets == {"", "s"}
Auths ==
    {BasicAuth(u, p) : u \in Usernames, p \in Secrets}
    \cup {BasicPasshash(u, h) : u \in Usernames, h \in Secrets}
    \cup {BasicToken(t) : t \in Secrets}

(* the parameters a request can carry before the hook runs *)
RequestParams == {Param("id", "1"), Param("username", "x")}
Queries == UNION {[1..n -> RequestParams] : n \in 0..MaxParams}

(* the session calls the auth hook on the prepared request *)
AuthCall ==
    /\ fpc = "ready"
    /\ url_params' = auth_call(auth, url_in)
    /\ fpc' = "done"
    /\ UNCHANGED <<credsValid, auth, url_in, parseVars, tagVars, other, clientVars, serverVars, callVars, reqVars>>

----------------------------------------------------------------------------
(* IdExtractor: ApiClient._parse_obj_id on strings as character sequences *)

MaxTokens == 4

Digits == {"0", "1", "2", "3", "4", "5", "6", "7", "8", "9"}
DigitVal(c) ==
    CASE c = "0" -> 0 [] c = "1" -> 1 [] c = "2" -> 2 [] c = "3" -> 3 [] c = "4" -> 4
      [] c = "5" -> 5 [] c = "6" -> 6 [] c = "7" -> 7 [] c = "8" -> 8 [] c = "9" -> 9

(* the percent escapes of the characters the urls are made of *)
HexChar(a, b) ==
    CASE a = "3" /\ b = "F" -> "?"
      [] a = "3" /\ b = "D" -> "="
      [] a = "2" /\ b = "6" -> "&"
      [] a = "3" /\ b = "4" -> "4"
      [] OTHER -> "%"
IsEscape(u, i) == u[i] = "%" /\ i + 2 <= Len(u) /\ HexChar(u[i + 1], u[i + 2]) # "%"

(* urllib.parse.unquote, from character i on *)
RECURSIVE unquote_from(_, _)
unquote_from(u, i) ==
    IF i > Len(u) THEN <<>>
    ELSE IF IsEscape(u, i) THEN <<HexChar(u[i + 1], u[i + 2])>> \o unquote_from(u, i + 3)
    ELSE <<u[i]>> \o unquote_from(u, i + 1)

unquote(u) == unquote_from(u, 1)

(* re.I handed to Pattern.search as its second argument is the position    *)
(* the search starts at                                                    *)
re_I == 2

(* the lookbehind without the test for the separator *)
lookbehind_no_separator(t, p) ==
    /\ p - 3 >= 1
    /\ SubSeq(t, p - 3, p - 1) = <<"i", "d", "=">>

(* (?<=(\?|&)id=) before character p of t *)
lookbehind(t, p) ==
    /\ p - 4 >= 1
    /\ t[p - 4] \in {"?", "&"}
    /\ SubSeq(t, p - 3, p - 1) = <<"i", "d", "=">>

(* \d+ from character p on: the longest run of digits *)
RECURSIVE digit_run(_, _)
digit_run(t, p) ==
    IF p > Len(t) \/ t[p] \notin Digits THEN <<>>
    ELSE <<t[p]>> \o digit_run(t, p + 1)

(* id_pattern.search(t, re.I): the leftmost match at or after the start    *)
(* position, <<>> for None                                                 *)
id_search(t) ==
    LET ms == {p \in (re_I + 1)..Len(t) : t[p] \in Digits /\ lookbehind(t, p)}
    IN  IF ms = {} THEN <<>>
        ELSE digit_run(t, CHOOSE p \in ms : \A q \in ms : p <= q)

(* int(str) of a run of digits *)
RECURSIVE int(_)
int(ds) == IF ds = <<>> THEN 0 ELSE 10 * int(SubSeq(ds, 1, Len(ds) - 1)) + DigitVal(ds[Len(ds)])

NoId == [ok |-> FALSE, value |-> 0, error |-> "none"]

(* ApiClient._parse_obj_id: None.group raises AttributeError *)
_parse_obj_id(u) ==
    IF id_search(unquote(u)) = <<>>
    THEN [ok |-> FALSE, value |-> 0, error |-> "AttributeError"]
    ELSE [ok |-> TRUE, value |-> int(id_search(unquote(u))), error |-> "none"]

(* the pieces the urls handed to _parse_obj_id are made of *)
Tokens ==
    {<<"x">>,
     <<"?", "f", "=", "1">>,
     <<"?", "i", "d", "=">>,
     <<"&", "i", "d", "=">>,
     <<"?", "i", "d", "x", "=">>,
     <<"i", "d", "=">>,
     <<"%", "3", "F", "i", "d", "%", "3", "D">>,
     <<"4", "2">>,
     <<"7">>}

RECURSIVE Concat(_)
Concat(ts) == IF ts = <<>> THEN <<>> ELSE ts[1] \o Concat(Tail(ts))

Urls == {Concat(ts) : ts \in UNION {[1..n -> Tokens] : n \in 0..MaxTokens}}

ParseObjId ==
    /\ fpc = "ready"
    /\ id_out' = _parse_obj_id(id_url)
    /\ fpc' = "done"
    /\ UNCHANGED <<credsValid, authVars, id_url, tagVars, other, clientVars, serverVars, callVars, reqVars>>

----------------------------------------------------------------------------
(* set_tags: the combined tags value of ApiClient.set_tags *)

MaxTags == 2
MaxTagLen == 3

(* tag.replace(' ', '-') that stops after the first space *)
RECURSIVE replace_first(_)
replace_first(tag) ==
    IF tag = <<>> THEN <<>>
    ELSE IF Head(tag) = " " THEN <<"-">> \o Tail(tag)
    ELSE <<Head(tag)>> \o replace_first(Tail(tag))

(* tag.replace(' ', '-') *)
RECURSIVE replace(_)
replace(tag) ==
    IF tag = <<>> THEN <<>>
    ELSE <<IF Head(tag) = " " THEN "-" ELSE Head(tag)>> \o replace(Tail(tag))

(* ' '.join(words) *)
RECURSIVE join(_)
join(words) ==
    IF words = <<>> THEN <<>>
    ELSE IF Len(words) = 1 THEN words[1]
    ELSE words[1] \o <<" ">> \o join(Tail(words))

(* the value of combined_tags for a list of tags *)
set_tags(ts) == join([i \in 1..Len(ts) |-> replace(ts[i])])

TagChars == {"a", " "}
Tags == UNION {[1..n -> TagChars] : n \in 0..MaxTagLen}
TagLists == UNION {[1..n -> Tags] : n \in 0..MaxTags}

SetTags ==
    /\ fpc = "ready"
    /\ combined_tags' = set_tags(tags)
    /\ fpc' = "done"
    /\ UNCHANGED <<credsValid, authVars, parseVars, tags, other, clientVars, serverVars, callVars, reqVars>>

(* the second caller before it exists *)
OtherOff == [pc |-> "off", before |-> <<>>, accepted |-> 0, polls |-> 0,
             result |-> [objid |-> 0, name |-> "", status |-> 0],
             err |-> NoExc]

(* the state of the variables the pure-function runs use, outside them *)
ExtIdle ==
    /\ fpc = "off"
    /\ auth = NoAuth
    /\ url_in = <<>>
    /\ url_params = <<>>
    /\ id_url = <<>>
    /\ id_out = NoId
    /\ tags = <<>>
    /\ combined_tags = <<>>
    /\ other = OtherOff

----------------------------------------------------------------------------
(* The server's objects *)

Obj(id, n, st) == [objid |-> id, name |-> n, status |-> st]
NoRecord == Obj(0, "", 0)

(* a creation the server accepted becomes visible *)
ServerMaterialize ==
    /\ accepted > 0
    /\ Len(server) < MaxObjects
    /\ server' = Append(server, Obj(Len(server) + 1, "B", 0))
    /\ mine' = mine \cup {Len(server) + 1}
    /\ accepted' = accepted - 1
    /\ UNCHANGED <<credsValid, extVars, clientVars, callVars, reqVars>>

(* a creation the server accepted is dropped without a trace *)
ServerDrop ==
    /\ accepted > 0
    /\ accepted' = accepted - 1
    /\ UNCHANGED <<credsValid, extVars, clientVars, server, mine, callVars, reqVars>>

(* another actor creates an object whose name matches the query *)
OtherCreate ==
    /\ Len(server) < MaxObjects
    /\ server' = Append(server, Obj(Len(server) + 1, "B", 0))
    /\ UNCHANGED <<credsValid, extVars, clientVars, accepted, mine, callVars, reqVars>>

(* a field of an existing object changes *)
ServerTouch ==
    /\ \E i \in DOMAIN server :
        /\ server[i].status = 0
        /\ Cardinality({j \in DOMAIN server : server[j].status = 1}) < MaxTouches
        /\ server' = [server EXCEPT ![i].status = 1]
    /\ UNCHANGED <<credsValid, extVars, clientVars, accepted, mine, callVars, reqVars>>

----------------------------------------------------------------------------
(* ApiClient *)

Timeouts == {None} \cup (0..MaxTimeout)
BackoffFactors == {0, 1, 64}

(* ApiClient.__init__: stores the configuration, mounts the adapters *)
Construct ==
    /\ ~constructed
    /\ \E t \in Timeouts, r \in 0..MaxFlowRetries :
        /\ timeout' = t
        /\ retries' = r
        /\ backoff_factor' = 1
    /\ constructed' = TRUE
    /\ UNCHANGED <<credsValid, extVars, validated, serverVars, callVars, reqVars>>

(* ApiClient._validate_cred *)
ValidateCred ==
    /\ constructed
    /\ rpc = "ready"
    /\ \E c \in _requests_get(FlowHeads) :
        /\ last' = c
        /\ validated' = IF c.exc = NoExc THEN "ok" ELSE "failed"
    /\ rpc' = "done"
    /\ UNCHANGED <<credsValid, extVars, constructed, timeout, retries, backoff_factor,
                   serverVars, callVars>>

(* x not in duplicate_devices *)
NotIn(x, lst) == \A i \in DOMAIN lst : lst[i] # x

(* next(...) taking the last new record instead of the first *)
next_new_last(devices, duplicates) ==
    LET idx == {i \in DOMAIN devices : NotIn(devices[i], duplicates)}
    IN  IF idx = {} THEN NoRecord
        ELSE devices[CHOOSE i \in idx : \A j \in idx : i >= j]

(* next(...) that never looks at the first record of the list *)
next_new_skip_first(devices, duplicates) ==
    LET idx == {i \in DOMAIN devices : i > 1 /\ NotIn(devices[i], duplicates)}
    IN  IF idx = {} THEN NoRecord
        ELSE devices[CHOOSE i \in idx : \A j \in idx : i <= j]

(* next(...) that prefers a record this client's own POST created *)
next_new_own(devices, duplicates) ==
    LET idx == {i \in DOMAIN devices : NotIn(devices[i], duplicates)}
        own == {i \in idx : devices[i].objid \in mine}
        pick == IF own # {} THEN own ELSE idx
    IN  IF idx = {} THEN NoRecord
        ELSE devices[CHOOSE i \in pick : \A j \in pick : i <= j]

(* next(x for x in devices if x not in duplicate_devices); NoRecord stands *)
(* for StopIteration                                                       *)
next_new(devices, duplicates) ==
    LET idx == {i \in DOMAIN devices : NotIn(devices[i], duplicates)}
    IN  IF idx = {} THEN NoRecord
        ELSE devices[CHOOSE i \in idx : \A j \in idx : i <= j]

(* the stop check with > in place of >= *)
stop_late(seconds_since_start) ==
    IF Truthy(timeout) THEN seconds_since_start > timeout ELSE FALSE

(* the stop check without the test that a timeout is set *)
stop_unset(seconds_since_start) == seconds_since_start >= timeout

(* stop=stop_after_delay(self.timeout) if self.timeout else stop_never *)
stop(seconds_since_start) ==
    IF Truthy(timeout) THEN seconds_since_start >= timeout ELSE FALSE

(* wait_random_exponential(): the upper end of the window after attempt n *)
wait_high(attempt_number) == Pow2(attempt_number - 1)

(* duplicate_devices = self.get_devices_by_name_containing(name) *)
Snapshot ==
    /\ constructed
    /\ pc = "idle"
    /\ \E c \in _requests_get(FlowHeads) :
        /\ IF c.exc = NoExc
           THEN /\ before' = server
                /\ pc' = "snapshotted"
                /\ err' = NoExc
           ELSE /\ before' = before
                /\ pc' = "error"
                /\ err' = c.exc
    /\ UNCHANGED <<credsValid, extVars, clientVars, serverVars, pollLog, elapsed, result, reqVars>>

(* self._requests_post(endpoint, data=data), then the Retrying loop starts *)
Post ==
    /\ pc = "snapshotted"
    /\ \E c \in _requests_post(FlowHeads) :
        IF c.exc = NoExc
        THEN /\ accepted' = accepted + 1
             /\ pc' = "polling"
             /\ err' = NoExc
        ELSE /\ accepted' = accepted
             /\ pc' = "error"
             /\ err' = c.exc
    /\ elapsed' = 0
    /\ UNCHANGED <<credsValid, extVars, clientVars, server, mine, before, pollLog, result, reqVars>>

(* the loop with an except clause that turns a failed list query into     *)
(* ObjectNotFound                                                          *)
Poll_convert ==
    /\ pc = "polling"
    /\ Len(pollLog) < MaxPolls
    /\ \E d \in 0..MaxPollTime, c \in _requests_get(FlowHeads) :
        /\ elapsed + d <= MaxTime
        /\ elapsed' = elapsed + d
        /\ IF c.exc # NoExc
           THEN /\ pc' = "not_found"
                /\ err' = Exc("ObjectNotFound", "", None)
                /\ UNCHANGED <<pollLog, result>>
           ELSE /\ pollLog' = Append(pollLog, server)
                /\ IF next_new(server, before) # NoRecord
                   THEN /\ result' = next_new(server, before)
                        /\ pc' = "returned"
                        /\ err' = NoExc
                   ELSE /\ result' = result
                        /\ IF stop(elapsed + d)
                           THEN /\ pc' = "not_found"
                                /\ err' = Exc("ObjectNotFound", "", None)
                           ELSE /\ pc' = "sleeping"
                                /\ err' = NoExc
    /\ UNCHANGED <<credsValid, extVars, clientVars, serverVars, before, reqVars>>

(* one attempt of the loop: the list query, next(...), and on StopIteration *)
(* the stop check of Retrying.iter                                         *)
Poll ==
    /\ pc = "polling"
    /\ Len(pollLog) < MaxPolls
    /\ \E d \in 0..MaxPollTime, c \in _requests_get(FlowHeads) :
        /\ elapsed + d <= MaxTime
        /\ elapsed' = elapsed + d
        /\ IF c.exc # NoExc
           THEN /\ pc' = "error"
                /\ err' = c.exc
                /\ UNCHANGED <<pollLog, result>>
           ELSE /\ pollLog' = Append(pollLog, server)
                /\ IF next_new(server, before) # NoRecord
                   THEN /\ result' = next_new(server, before)
                        /\ pc' = "returned"
                        /\ err' = NoExc
                   ELSE /\ result' = result
                        /\ IF stop(elapsed + d)
                           THEN /\ pc' = "not_found"
                                /\ err' = Exc("ObjectNotFound", "", None)
                           ELSE /\ pc' = "sleeping"
                                /\ err' = NoExc
    /\ UNCHANGED <<credsValid, extVars, clientVars, serverVars, before, reqVars>>

(* self.sleep(do) between two attempts *)
Sleep ==
    /\ pc = "sleeping"
    /\ \E s \in 0..wait_high(Len(pollLog)) :
        /\ elapsed + s <= MaxTime
        /\ elapsed' = elapsed + s
    /\ pc' = "polling"
    /\ UNCHANGED <<credsValid, extVars, clientVars, serverVars, before, pollLog, result, err, reqVars>>

Init ==
    /\ credsValid \in BOOLEAN
    /\ constructed = FALSE
    /\ timeout = None
    /\ retries = 0
    /\ backoff_factor = 0
    /\ validated = "no"
    /\ server \in {<<>>, <<Obj(1, "A", 0)>>}
    /\ accepted = 0
    /\ mine = {}
    /\ pc = "idle"
    /\ before = <<>>
    /\ pollLog = <<>>
    /\ elapsed = 0
    /\ result = NoRecord
    /\ err = NoExc
    /\ rpc = "off"
    /\ last = NoCall
    /\ ExtIdle

Next ==
    \/ Construct
    \/ Snapshot
    \/ Post
    \/ Poll
    \/ Sleep
    \/ ServerMaterialize
    \/ ServerDrop
    \/ OtherCreate
    \/ ServerTouch

Spec == Init /\ [][Next]_vars

----------------------------------------------------------------------------
(* The request layer alone: one request of a constructed client *)

RequestsGet ==
    /\ rpc = "ready"
    /\ \E c \in _requests_get(Heads) : last' = c
    /\ rpc' = "done"
    /\ UNCHANGED <<credsValid, extVars, clientVars, serverVars, callVars>>

RequestsPost ==
    /\ rpc = "ready"
    /\ \E c \in _requests_post(Heads) : last' = c
    /\ rpc' = "done"
    /\ UNCHANGED <<credsValid, extVars, clientVars, serverVars, callVars>>

InitReq ==
    /\ credsValid \in BOOLEAN
    /\ constructed = TRUE
    /\ timeout = None
    /\ retries \in 0..MaxRetries
    /\ backoff_factor \in BackoffFactors
    /\ validated = "no"
    /\ server = <<>>
    /\ accepted = 0
    /\ mine = {}
    /\ pc = "idle"
    /\ before = <<>>
    /\ pollLog = <<>>
    /\ elapsed = 0
    /\ result = NoRecord
    /\ err = NoExc
    /\ rpc = "ready"
    /\ last = NoCall
    /\ ExtIdle

NextReq == RequestsGet \/ RequestsPost \/ ValidateCred

SpecReq == InitReq /\ [][NextReq]_vars

----------------------------------------------------------------------------
(* The pure functions: one call per run *)

(* the client, the server and the calls at rest *)
CoreIdle ==
    /\ credsValid = TRUE
    /\ constructed = TRUE
    /\ timeout = None
    /\ retries = 0
    /\ backoff_factor = 1
    /\ validated = "no"
    /\ server = <<>>
    /\ accepted = 0
    /\ mine = {}
    /\ pc = "idle"
    /\ before = <<>>
    /\ pollLog = <<>>
    /\ elapsed = 0
    /\ result = NoRecord
    /\ err = NoExc
    /\ rpc = "off"
    /\ last = NoCall

InitAuth ==
    /\ CoreIdle
    /\ fpc = "ready"
    /\ auth \in Auths
    /\ url_in \in Queries
    /\ url_params = <<>>
    /\ id_url = <<>>
    /\ id_out = NoId
    /\ tags = <<>>
    /\ combined_tags = <<>>
    /\ other = OtherOff

NextAuth == AuthCall

SpecAuth == InitAuth /\ [][NextAuth]_vars

InitParse ==
    /\ CoreIdle
    /\ fpc = "ready"
    /\ auth = NoAuth
    /\ url_in = <<>>
    /\ url_params = <<>>
    /\ id_url \in Urls
    /\ id_out = NoId
    /\ tags = <<>>
    /\ combined_tags = <<>>
    /\ other = OtherOff

NextParse == ParseObjId

SpecParse == InitParse /\ [][NextParse]_vars

InitTags ==
    /\ CoreIdle
    /\ fpc = "ready"
    /\ auth = NoAuth
    /\ url_in = <<>>
    /\ url_params = <<>>
    /\ id_url = <<>>
    /\ id_out = NoId
    /\ tags \in TagLists
    /\ combined_tags = <<>>
    /\ other = OtherOff

NextTags == SetTags

SpecTags == InitTags /\ [][NextTags]_vars

----------------------------------------------------------------------------
(* Two callers of add_device / add_group against the same server, both     *)
(* clients constructed without a timeout                                   *)

(* the second caller's duplicate_devices = ...get_devices_by_name_containing *)
OtherSnapshot ==
    /\ other.pc = "idle"
    /\ \E c \in _requests_get(FlowHeads) :
        other' = IF c.exc = NoExc
                 THEN [other EXCEPT !.before = server, !.pc = "snapshotted"]
                 ELSE [other EXCEPT !.pc = "error", !.err = c.exc]
    /\ UNCHANGED <<credsValid, fpc, authVars, parseVars, tagVars, clientVars, serverVars,
                   callVars, reqVars>>

(* the second caller's creation POST *)
OtherPost ==
    /\ other.pc = "snapshotted"
    /\ \E c \in _requests_post(FlowHeads) :
        other' = IF c.exc = NoExc
                 THEN [other EXCEPT !.accepted = @ + 1, !.pc = "polling"]
                 ELSE [other EXCEPT !.pc = "error", !.err = c.exc]
    /\ UNCHANGED <<credsValid, fpc, authVars, parseVars, tagVars, clientVars, serverVars,
                   callVars, reqVars>>

(* one attempt of the second caller's loop; with stop_never an attempt     *)
(* that finds nothing new is followed by the next one                      *)
OtherPoll ==
    /\ other.pc = "polling"
    /\ ~Truthy(timeout)
    /\ other.polls < MaxPolls
    /\ \E c \in _requests_get(FlowHeads) :
        other' = IF c.exc # NoExc
                 THEN [other EXCEPT !.pc = "error", !.err = c.exc]
                 ELSE IF next_new(server, other.before) # NoRecord
                 THEN [other EXCEPT !.polls = @ + 1, !.pc = "returned",
                                    !.result = next_new(server, other.before)]
                 ELSE [other EXCEPT !.polls = @ + 1]
    /\ UNCHANGED <<credsValid, fpc, authVars, parseVars, tagVars, clientVars, serverVars,
                   callVars, reqVars>>

(* a creation of the second caller that the server accepted becomes visible *)
OtherMaterialize ==
    /\ other.accepted > 0
    /\ Len(server) < MaxObjects
    /\ server' = Append(server, Obj(Len(server) + 1, "B", 0))
    /\ other' = [other EXCEPT !.accepted = @ - 1]
    /\ UNCHANGED <<credsValid, fpc, authVars, parseVars, tagVars, clientVars, accepted, mine,
                   callVars, reqVars>>

InitRace ==
    /\ CoreIdle
    /\ fpc = "off"
    /\ auth = NoAuth
    /\ url_in = <<>>
    /\ url_params = <<>>
    /\ id_url = <<>>
    /\ id_out = NoId
    /\ tags = <<>>
    /\ combined_tags = <<>>
    /\ other = [OtherOff EXCEPT !.pc = "idle"]

NextRace ==
    \/ Snapshot
    \/ Post
    \/ Poll
    \/ Sleep
    \/ ServerMaterialize
    \/ ServerDrop
    \/ OtherCreate
    \/ OtherSnapshot
    \/ OtherPost
    \/ OtherPoll
    \/ OtherMaterialize

SpecRace == InitRace /\ [][NextRace]_vars

----------------------------------------------------------------------------
(* Properties *)

InLoop(p) == p \in {"polling", "sleeping"}
RequestErrorKinds == {"HTTPError", "RetryError", "ParseError", "AttributeError"}

(* the list has a record that is not in the before-snapshot *)
HasNew(lst) == \E i \in DOMAIN lst : lst[i] \notin Range(before)

(* C1: no constructed ApiClient exists whose credentials the server rejects *)
(* (construction validates the credentials and fails when they are         *)
(* rejected).                                                              *)
C1_NoClientWithRejectedCredentials == constructed => credsValid

(* C2: the record add_device / add_group returns is the first record, in   *)
(* server order, of the successful poll's list that equals no record of    *)
(* the before-snapshot; it is never a member of the before-snapshot.       *)
C2_ReturnsFirstNewRecord ==
    pc = "returned" =>
        \E i \in DOMAIN pollLog[Len(pollLog)] :
            /\ pollLog[Len(pollLog)][i] = result
            /\ result \notin Range(before)
            /\ \A j \in 1..(i - 1) : pollLog[Len(pollLog)][j] \in Range(before)

C2_Witness ==
    /\ pc = "returned"
    /\ Len(before) >= 1
    /\ Cardinality({i \in DOMAIN pollLog[Len(pollLog)] :
                       pollLog[Len(pollLog)][i] \notin Range(before)}) >= 2
    /\ result # pollLog[Len(pollLog)][1]

(* C3: a poll whose list has a new record is the last poll of the call and *)
(* the call returns a new record of that list: after k polls without a     *)
(* new record and a poll k+1 with one, the call has returned after exactly *)
(* k retried polls and issues no further poll.                             *)
C3_ReturnsAtFirstPollWithNewRecord ==
    \A n \in DOMAIN pollLog :
        /\ HasNew(pollLog[n]) =>
              /\ n = Len(pollLog)
              /\ pc = "returned"
              /\ result \in Range(pollLog[n])
              /\ result \notin Range(before)
        /\ (pc = "returned" /\ n = Len(pollLog)) => HasNew(pollLog[n])

C3_Witness ==
    /\ pc = "returned"
    /\ before = <<Obj(1, "A", 0)>>
    /\ pollLog = <<before, before, <<Obj(1, "A", 0), Obj(2, "B", 0)>> >>
    /\ result = Obj(2, "B", 0)

(* C4 as stated: once the configured deadline has elapsed with no poll so  *)
(* far showing a new record, the call stops polling and never returns a    *)
(* record.                                                                 *)
C4_Original ==
    [][(InLoop(pc) /\ Truthy(timeout) /\ elapsed >= timeout)
          => (pollLog' = pollLog /\ pc' # "returned")]_vars

(* C4 amended: the deadline is examined right after a poll that showed no  *)
(* new record; when the time since the loop started is then at least the   *)
(* timeout the call fails with ObjectNotFound, which is no error kind of   *)
(* the request layer, and returns no record; it does not go on to sleep.   *)
C4_DeadlineCheckedAfterEmptyPoll ==
    /\ pc = "not_found" =>
          /\ Truthy(timeout)
          /\ elapsed >= timeout
          /\ err.kind = "ObjectNotFound"
          /\ err.kind \notin RequestErrorKinds
          /\ result = NoRecord
          /\ Len(pollLog) >= 1
          /\ \A n \in DOMAIN pollLog : ~HasNew(pollLog[n])
    /\ pc = "sleeping" => ~(Truthy(timeout) /\ elapsed >= timeout)
    /\ pc = "error" => err.kind \in RequestErrorKinds

C4_Witness ==
    /\ pc = "not_found"
    /\ Len(pollLog) >= 2
    /\ accepted > 0

C6_Original ==
    [][(timeout = None /\ InLoop(pc) /\ ~InLoop(pc')) => pc' = "returned"]_vars

(* C6 amended: with no timeout the loop never fails with ObjectNotFound; a *)
(* poll without a new record is followed by the backoff sleep, and the     *)
(* loop is left only by returning a new record of the last poll or by an   *)
(* error of a poll's list query, which propagates.                         *)
C6_NoDeadlinePollsOn ==
    [][(timeout = None /\ InLoop(pc)) =>
          /\ pc' # "not_found"
          /\ (pollLog' # pollLog /\ ~HasNew(pollLog'[Len(pollLog')])) => pc' = "sleeping"
          /\ ~InLoop(pc') =>
                \/ /\ pc' = "returned"
                   /\ HasNew(pollLog'[Len(pollLog')])
                   /\ result' \notin Range(before)
                \/ /\ pc' = "error"
                   /\ err'.kind \in RequestErrorKinds
                   /\ pollLog' = pollLog]_vars

C6_Witness ==
    /\ timeout = None
    /\ pc = "sleeping"
    /\ Len(pollLog) >= 3
    /\ elapsed >= 3

----------------------------------------------------------------------------
(* Properties of the request layer *)

Final == last.seen[last.attempts]

HasErrorChild(body) == \E i \in DOMAIN body.children : body.children[i].tag = "error"

(* the text of the first <error> node of the document, the root included *)
IsFirstErrorText(body, x) ==
    IF body.root.tag = "error" THEN x = body.root.text
    ELSE \E i \in DOMAIN body.children :
            /\ body.children[i].tag = "error"
            /\ body.children[i].text = x
            /\ \A j \in 1..(i - 1) : body.children[j].tag # "error"

(* C7 as stated: get and post alike fail on a 400 with an error whose      *)
(* message is the text of the first <error> node of the body.              *)
C7_Original ==
    (rpc = "done" /\ Final.status = 400 /\ last.body.wf
        /\ (last.body.root.tag = "error" \/ HasErrorChild(last.body)))
    => (last.exc.kind = "HTTPError" /\ IsFirstErrorText(last.body, last.exc.msg))

(* C7 amended: a GET answered 400 fails with an HTTPError whose message is *)
(* the text of the first <error> child of the body's root; without such a  *)
(* child (the root itself being <error> included) it fails with an         *)
(* AttributeError, on a malformed body with a ParseError; a POST answered  *)
(* 400 fails with the generic HTTPError of status 400, the body unread.    *)
C7_BadRequestFromErrorChild ==
    (rpc = "done" /\ Final.status = 400) =>
        /\ last.method = "GET" =>
              /\ (last.body.wf /\ HasErrorChild(last.body)) =>
                    /\ last.exc.kind = "HTTPError"
                    /\ last.exc.status = None
                    /\ \E i \in DOMAIN last.body.children :
                          /\ last.body.children[i] = Elem("error", last.exc.msg)
                          /\ \A j \in 1..(i - 1) : last.body.children[j].tag # "error"
              /\ (last.body.wf /\ ~HasErrorChild(last.body)) => last.exc.kind = "AttributeError"
              /\ ~last.body.wf => last.exc.kind = "ParseError"
        /\ last.method = "POST" => last.exc = Exc("HTTPError", "Client Error", 400)

C7_Witness ==
    /\ rpc = "done"
    /\ last.method = "GET"
    /\ Final.status = 400
    /\ last.body = XmlPrtgError
    /\ last.exc = Exc("HTTPError", "X", None)

(* C8: a 401 fails with the authentication error kind (Unauthorized), a    *)
(* 404 with NotFound, any other non-2xx status with ServerError carrying   *)
(* the status.                                                             *)
C8_TypedErrorKinds ==
    (rpc = "done" /\ last.exc.kind # "RetryError") =>
        /\ Final.status = 401 => last.exc.kind = "Unauthorized"
        /\ Final.status = 404 => last.exc.kind = "NotFound"
        /\ (Final.status >= 300 /\ Final.status \notin {400, 401, 404}) =>
              (last.exc.kind = "ServerError" /\ last.exc.status = Final.status)

(* C9 as stated: GET and POST alike, an answer with a status of the        *)
(* forcelist is retried until the retry count is used up and the call then *)
(* fails, and an answer with a 4xx status is never retried.                *)
C9_Original ==
    rpc = "done" =>
        \A i \in 1..last.attempts :
            /\ last.seen[i].status \in status_forcelist =>
                  (i < last.attempts \/ (i = retries + 1 /\ last.exc # NoExc))
            /\ (last.seen[i].status >= 400 /\ last.seen[i].status < 500) => i = last.attempts

(* C9 amended: a GET answered with a status of the forcelist is retried    *)
(* until the retry count is used up and then fails with RetryError; a 4xx  *)
(* answer to a GET is not retried unless it is a 413 or 429 carrying a     *)
(* Retry-After header, so a 400 is always the last attempt; a POST is      *)
(* never retried on a response status: it makes exactly one attempt.       *)
C9_RetriesOnlyIdempotentMethods ==
    rpc = "done" =>
        /\ last.attempts <= retries + 1
        /\ last.method = "POST" => last.attempts = 1
        /\ last.method = "GET" =>
              \A i \in 1..last.attempts :
                  /\ last.seen[i].status \in status_forcelist =>
                        (i < last.attempts \/ (i = retries + 1 /\ last.exc.kind = "RetryError"))
                  /\ (/\ last.seen[i].status >= 400
                      /\ last.seen[i].status < 500
                      /\ ~(last.seen[i].status \in {413, 429} /\ last.seen[i].ra # None))
                        => i = last.attempts

C9_Witness ==
    /\ rpc = "done"
    /\ last.method = "GET"
    /\ retries >= 2
    /\ last.attempts = retries + 1
    /\ last.exc.kind = "RetryError"
    /\ \A i \in 1..last.attempts : last.seen[i].status \in status_forcelist

(* every attempt of the last request got a status of the forcelist *)
AllRetried == \A i \in 1..last.attempts : last.seen[i].status \in status_forcelist

(* C10 as stated: within a call whose attempts keep receiving a retried    *)
(* status the delays between consecutive retries are strictly increasing,  *)
(* whatever the retry count and the backoff factor.                        *)
C10_Original ==
    (rpc = "done" /\ AllRetried) =>
        \A i \in 1..(Len(last.delays) - 1) : last.delays[i] < last.delays[i + 1]

(* C10 amended: within a call whose attempts keep receiving a status of    *)
(* the forcelist without a Retry-After header, the first retry is not      *)
(* delayed and the delays never decrease; they are strictly increasing as  *)
(* long as the backoff factor is positive and the delay is below the cap   *)
(* of 120 seconds.                                                         *)
C10_DelaysNonDecreasing ==
    (rpc = "done" /\ AllRetried /\ \A i \in 1..last.attempts : last.seen[i].ra = None) =>
        /\ Len(last.delays) >= 1 => last.delays[1] = 0
        /\ \A i \in 1..(Len(last.delays) - 1) :
              /\ last.delays[i] <= last.delays[i + 1]
              /\ last.delays[i + 1] <= DEFAULT_BACKOFF_MAX
              /\ (backoff_factor > 0 /\ last.delays[i] < DEFAULT_BACKOFF_MAX) =>
                    last.delays[i] < last.delays[i + 1]

C10_Witness ==
    /\ rpc = "done"
    /\ AllRetried
    /\ backoff_factor = 1
    /\ last.delays = <<0, 2, 4>>

----------------------------------------------------------------------------
(* Properties of the authenticator *)

(* the parameters the hook added behind those the request had *)
Added == SubSeq(url_params, Len(url_in) + 1, Len(url_params))

(* C11: each credential strategy adds exactly its documented query         *)
(* parameters and no others: BasicAuth username and password,              *)
(* BasicPasshash username and passhash and never a password parameter,     *)
(* BasicToken only apitoken; the parameters the request had are preserved. *)
C11_ExactlyDocumentedParams ==
    fpc = "done" =>
        /\ Len(url_params) >= Len(url_in)
        /\ SubSeq(url_params, 1, Len(url_in)) = url_in
        /\ auth.cls = "BasicAuth" =>
              Added = <<Param("username", auth.username), Param("password", auth.password)>>
        /\ auth.cls = "BasicPasshash" =>
              /\ Added = <<Param("username", auth.username), Param("passhash", auth.passhash)>>
              /\ \A i \in DOMAIN Added : Added[i][1] # "password"
        /\ auth.cls = "BasicToken" => Added = <<Param("apitoken", auth.api_token)>>

C11_Witness ==
    /\ fpc = "done"
    /\ auth = BasicPasshash("u", "s")
    /\ url_in = <<Param("id", "1"), Param("username", "x")>>
    /\ url_params = <<Param("id", "1"), Param("username", "x"),
                      Param("username", "u"), Param("passhash", "s")>>

----------------------------------------------------------------------------
(* Properties of the id extractor *)

(* the percent-decoded url, computed character by character *)
Decoded == unquote(id_url)

(* `id=` starts at q and is immediately preceded by ? or & *)
IsIdKey(t, q) ==
    /\ q >= 2
    /\ q + 2 <= Len(t)
    /\ t[q] = "i" /\ t[q + 1] = "d" /\ t[q + 2] = "="
    /\ t[q - 1] \in {"?", "&"}

IdKeys(t) == {q \in 1..Len(t) : IsIdKey(t, q)}
FirstOf(S) == CHOOSE q \in S : \A r \in S : q <= r

(* the digits from p up to the first character that is no digit *)
DigitsFrom(t, p) ==
    LET stops == {e \in p..(Len(t) + 1) : e = Len(t) + 1 \/ t[e] \notin Digits}
    IN  SubSeq(t, p, FirstOf(stops) - 1)

(* C12 as stated: a returned value is the integer made of the digits of    *)
(* the first `id=` preceded by ? or & in the decoded url, and the call     *)
(* fails when there is no such `id=`.                                      *)
C12_Original ==
    fpc = "done" =>
        /\ IdKeys(Decoded) = {} => ~id_out.ok
        /\ id_out.ok =>
              /\ IdKeys(Decoded) # {}
              /\ DigitsFrom(Decoded, FirstOf(IdKeys(Decoded)) + 3) # <<>>
              /\ id_out.value = int(DigitsFrom(Decoded, FirstOf(IdKeys(Decoded)) + 3))

(* the `id=` keys that a digit follows *)
IdKeysWithDigits(t) == {q \in IdKeys(t) : q + 3 <= Len(t) /\ t[q + 3] \in Digits}

(* C12 amended: the result is the integer made of the digits that follow   *)
(* the first `id=` that is preceded by ? or & and followed by a digit in   *)
(* the decoded url; when there is no such `id=` the call fails with an     *)
(* error and returns no value.                                             *)
C12_FirstIdWithDigits ==
    fpc = "done" =>
        IF IdKeysWithDigits(Decoded) = {}
        THEN ~id_out.ok /\ id_out.error = "AttributeError"
        ELSE /\ id_out.ok
             /\ id_out.value = int(DigitsFrom(Decoded, FirstOf(IdKeysWithDigits(Decoded)) + 3))

C12_Witness ==
    /\ fpc = "done"
    /\ id_url = <<"x", "?", "f", "=", "1", "&", "i", "d", "=", "4", "2">>
    /\ id_out.ok
    /\ id_out.value = 42

----------------------------------------------------------------------------
(* Properties of set_tags *)

(* the words of a string between its single spaces, as the server reads    *)
(* the tags back: the word before the first space, then the rest           *)
FirstSpace(str) == FirstOf({i \in 1..(Len(str) + 1) : i = Len(str) + 1 \/ str[i] = " "})

RECURSIVE Words(_)
Words(str) ==
    IF FirstSpace(str) > Len(str) THEN <<str>>
    ELSE <<SubSeq(str, 1, FirstSpace(str) - 1)>> \o Words(SubSeq(str, FirstSpace(str) + 1, Len(str)))

(* word w is tag t with every space turned into a hyphen *)
IsHyphenated(w, t) ==
    /\ Len(w) = Len(t)
    /\ \A i \in 1..Len(t) : w[i] = (IF t[i] = " " THEN "-" ELSE t[i])

(* the combined value holds the tags in order, each with its spaces        *)
(* turned into hyphens, one single space between neighbours                *)
IsCombinedOf(str, ts) ==
    IF ts = <<>> THEN str = <<>>
    ELSE /\ Len(Words(str)) = Len(ts)
         /\ \A i \in 1..Len(ts) : IsHyphenated(Words(str)[i], ts[i])

(* C13 as stated: the combined value is the tags with their spaces turned  *)
(* into hyphens joined by single spaces, and applying set_tags again to    *)
(* its own output (the combined value as the tag) gives the same value.    *)
C13_Original ==
    fpc = "done" =>
        /\ IsCombinedOf(combined_tags, tags)
        /\ set_tags(<<combined_tags>>) = combined_tags

(* C13 amended: the combined value is the tags with their spaces turned    *)
(* into hyphens joined by single spaces; applying set_tags again to the    *)
(* tags read back from its output, one tag per space-separated word, or    *)
(* to the tags it has already hyphenated, gives the same combined value.   *)
C13_IdempotentOnWords ==
    fpc = "done" =>
        /\ IsCombinedOf(combined_tags, tags)
        /\ set_tags(Words(combined_tags)) = combined_tags
        /\ set_tags([i \in 1..Len(tags) |-> replace(tags[i])]) = combined_tags

C13_Witness ==
    /\ fpc = "done"
    /\ tags = << <<"a", " ", "a">>, <<"a">> >>
    /\ combined_tags = <<"a", "-", "a", " ", "a">>

----------------------------------------------------------------------------
(* Properties of two concurrent callers *)

(* the first record of lst that is not in the snapshot snap *)
IsFirstNot(r, lst, snap) ==
    \E i \in DOMAIN lst :
        /\ lst[i] = r
        /\ r \notin Range(snap)
        /\ \A j \in 1..(i - 1) : lst[j] \in Range(snap)

(* C14: the confirmation looks at the snapshot and the order of the list   *)
(* only, never at who created a record: each caller returns the first      *)
(* record of the polled list that its own snapshot lacks, also when that   *)
(* record was created by another actor after the snapshot and the          *)
(* caller's own object is further down the list or not there at all.       *)
C14_ReturnsFirstNewWhoeverCreatedIt ==
    [][ /\ (pc' = "returned" /\ pc # "returned") => IsFirstNot(result', server, before)
        /\ (other'.pc = "returned" /\ other.pc # "returned") =>
              IsFirstNot(other'.result, server, other.before) ]_vars

(* both callers have returned the same record, which the first caller's    *)
(* creation call did not create                                            *)
C14_Witness ==
    /\ pc = "returned"
    /\ other.pc = "returned"
    /\ result = other.result
    /\ result.objid \notin mine

----------------------------------------------------------------------------
(* Order of the steps of add_device / add_group and the way out on errors *)

(* the snapshot is taken first, from the idle caller *)
SnapshotFirst ==
    (pc' = "snapshotted" /\ pc # "snapshotted") => (pc = "idle" /\ before' = server)

(* the loop is entered only from the snapshot, by a POST the server accepted *)
PostBeforePolls ==
    (InLoop(pc') /\ ~InLoop(pc)) =>
        (pc = "snapshotted" /\ accepted' = accepted + 1 /\ pollLog' = pollLog)

(* a poll happens only inside the loop *)
PollsInLoop ==
    /\ pollLog' # pollLog => pc = "polling"
    /\ (pc' \in {"returned", "not_found"} /\ pc' # pc) =>
          (pc = "polling" /\ pollLog' = Append(pollLog, server))

(* a failed request ends the call with the request's own error, whatever    *)
(* the step, and leaves no trace of a poll or a creation                   *)
ErrorPropagates ==
    (pc' = "error" /\ pc # "error") =>
        /\ pc \in {"idle", "snapshotted", "polling"}
        /\ err'.kind \in RequestErrorKinds
        /\ err'.kind # "ObjectNotFound"
        /\ pollLog' = pollLog
        /\ accepted' = accepted
        /\ result' = result

(* ObjectNotFound comes from a poll that answered and showed nothing new *)
NotFoundOnlyFromEmptyPoll ==
    (pc' = "not_found" /\ pc # "not_found") =>
        /\ err'.kind = "ObjectNotFound"
        /\ ~HasNew(server)

(* after the error the caller issues no request: no snapshot, no creation, *)
(* no poll, no sleep                                                       *)
NothingAfterError ==
    pc = "error" => (UNCHANGED callVars /\ accepted' <= accepted)

(* C15: the steps run in the order snapshot, POST, polls; no poll is made  *)
(* before the POST was accepted; an error of the snapshot query, of the    *)
(* POST or of a poll's list query ends the call at once with that error    *)
(* (never ObjectNotFound, never another attempt) and no request follows.   *)
C15_OrderAndErrorPropagation ==
    [][ /\ SnapshotFirst
        /\ PostBeforePolls
        /\ PollsInLoop
        /\ ErrorPropagates
        /\ NotFoundOnlyFromEmptyPoll
        /\ NothingAfterError ]_vars

(* a poll's list query failed after an earlier poll of the same call had   *)
(* answered, and the call ended with the request's error                   *)
C15_Witness ==
    /\ pc = "error"
    /\ credsValid
    /\ Len(pollLog) >= 1
    /\ err.kind \in RequestErrorKinds

====
